---------------------------- MODULE Spec2Model ----------------------------
(***************************************************************************)
(* A model of the packed-bit containers of zxing-go, core/common:          *)
(* BitMatrix (a grid of bits, one slice of 32-bit words per row) and       *)
(* BitArray (a word-backed bit vector), as written in bit_matrix.go.       *)
(*                                                                         *)
(* The variables: m is a grid and a a second grid (the mask of Xor); arr   *)
(* is a BitArray and brr a second one; txt is a text with the tokens it is *)
(* read with; heap is the storage of word slices and refs the objects that *)
(* point into it (used where sharing of storage matters); last is the      *)
(* record of the last call and prev the grid before it.  Spec is the       *)
(* grid under its operations, ArraySpec the BitArray under its operations, *)
(* SearchSpec the searches of a BitArray (GetNextSet, GetNextUnset),       *)
(* RowSpec the exchange of rows between the two (GetRow, SetRow),          *)
(* TextSpec the text form of a grid (ToString, ParseStringToBitMatrix),    *)
(* PairSpec two BitArrays (Equals, Xor, AppendBitArray, Clone), and        *)
(* CloneSpec a grid, an array and their clones in shared storage.          *)
(*                                                                         *)
(* A 32-bit word is modelled as the set of its set bit positions, a subset *)
(* of 0..31 (bit 0 is the least significant): the word operators below are *)
(* Go's operators on uint32 under that reading.  A []uint32 is a function  *)
(* on 0..len-1.  A uint32 that may exceed the checker's integers (the      *)
(* arguments of SetRegion) is a pair <<hi, lo>> of 16-bit halves.          *)
(***************************************************************************)
EXTENDS Integers, FiniteSets, Sequences

VARIABLES m, a, prev, last, steps, arr, txt, brr, heap, refs

vars == <<m, a, prev, last, steps, arr, txt, brr, heap, refs>>

-----------------------------------------------------------------------------
(* Bounds of the model *)

\* the number of operations applied to the grid in one behaviour
MaxSteps == 2

\* the number of calls made on an object and its clone in one behaviour
MaxCalls == 3

\* the length of the longest text built from every character of Alphabet
MaxTextLen == 4

\* the most capacity []rune(text) is given beyond the length of the text
MaxSpare == 3

-----------------------------------------------------------------------------
(* 32-bit words *)

WordBits == 32

BitIdx == 0 .. (WordBits - 1)

\* the word 0
Zero == {}

\* x << k on uint32: bits shifted past bit 31 are lost; k >= 32 gives 0
Shl(w, k) == {i + k : i \in w} \cap BitIdx

\* x >> k on uint32 (logical); k >= 32 gives 0
Shr(w, k) == {i - k : i \in w} \cap BitIdx

And(w, v) == w \cap v

Or(w, v) == w \cup v

XorW(w, v) == (w \ v) \cup (v \ w)

\* ^x on uint32
Not(w) == BitIdx \ w

\* 1 << (x & 0x1F)
BitMask(x) == {x % WordBits}

\* len of a slice modelled as a function on 0..n-1
Len0(s) == Cardinality(DOMAIN s)

\* make([]uint32, n)
MakeWords(n) == [i \in 0 .. (n - 1) |-> Zero]

-----------------------------------------------------------------------------
(* uint32 values beyond the checker's integers: <<hi, lo>>, 16 bits each *)

Half == 2 ^ 16

\* the uint32 of a small natural
U32(n) == <<n \div Half, n % Half>>

\* 0xFFFFFFFF
MaxU32 == <<Half - 1, Half - 1>>

\* the natural of a uint32 below 2^16
ValU32(u) == u[2]

\* a + b on uint32: the sum modulo 2^32
AddU32(u, v) ==
    LET lo == u[2] + v[2]
        hi == u[1] + v[1] + (lo \div Half)
    IN  <<hi % Half, lo % Half>>

\* whether a + b, as a mathematical integer, needs more than 32 bits
CarryU32(u, v) == (u[1] + v[1] + ((u[2] + v[2]) \div Half)) >= Half

\* a < b, a > b on uint32
LtU32(u, v) == (u[1] < v[1]) \/ (u[1] = v[1] /\ u[2] < v[2])

GtU32(u, v) == LtU32(v, u)

-----------------------------------------------------------------------------
(* BitArray *)

\* NewBitArray(size): ((size + 31) / 32) zero words
NewBitArray(size) ==
    [bits |-> MakeWords((size + 31) \div WordBits), size |-> size]

\* (*BitArray).Clear
ClearA(ba) == [ba EXCEPT !.bits = [i \in DOMAIN ba.bits |-> Zero]]

\* (*BitArray).SetBulk(i, newBits)
SetBulk(ba, i, newBits) == [ba EXCEPT !.bits[i \div WordBits] = newBits]

\* (*BitArray).Set(i)
SetA(ba, i) == [ba EXCEPT !.bits[i \div WordBits] = Or(@, BitMask(i))]

\* (*BitArray).Flip(i)
FlipA(ba, i) == [ba EXCEPT !.bits[i \div WordBits] = XorW(@, BitMask(i))]

\* (*BitArray).Get(i)
GetA(ba, i) == And(ba.bits[i \div WordBits], BitMask(i)) # Zero

\* (*BitArray).GetBitArray
GetBitArray(ba) == ba.bits

\* the masks of Reverse's swap network
M55 == {i \in BitIdx : i % 2 = 0}

M33 == {i \in BitIdx : i % 4 < 2}

M0F == {i \in BitIdx : i % 8 < 4}

MFF == {i \in BitIdx : i % 16 < 8}

MFFFF == {i \in BitIdx : i < 16}

\* one stage of the network: ((x >> k) & mask) | ((x & mask) << k)
SwapStage(x, k, mask) == Or(And(Shr(x, k), mask), Shl(And(x, mask), k))

\* the five stages: the bits of one word in reverse order
ReverseWord(x) ==
    SwapStage(SwapStage(SwapStage(SwapStage(SwapStage(x, 1, M55),
                                            2, M33), 4, M0F), 8, MFF), 16, MFFFF)

\* the loop that shifts the reversed words right by leftOffset, from index i,
\* carrying currentInt; currentInt is not reloaded from nextInt in the loop
RECURSIVE ReverseShift(_, _, _, _, _)
ReverseShift(newBits, i, oldBitsLen, leftOffset, currentInt) ==
    IF i < oldBitsLen
    THEN LET nextInt == newBits[i]
             cur == Or(currentInt, Shl(nextInt, WordBits - leftOffset))
         IN  ReverseShift([newBits EXCEPT ![i - 1] = cur], i + 1,
                          oldBitsLen, leftOffset, cur)
    ELSE [newBits EXCEPT ![oldBitsLen - 1] = currentInt]

\* (*BitArray).Reverse, for size >= 1
ReverseA(ba) ==
    LET len == (ba.size - 1) \div WordBits
        oldBitsLen == len + 1
        rev == [j \in DOMAIN ba.bits |->
                   IF j <= len THEN ReverseWord(ba.bits[len - j]) ELSE Zero]
        leftOffset == (oldBitsLen * WordBits) - ba.size
    IN  [ba EXCEPT !.bits =
            IF ba.size # oldBitsLen * WordBits
            THEN ReverseShift(rev, 1, oldBitsLen, leftOffset,
                              Shr(rev[0], leftOffset))
            ELSE rev]

\* a - b on uint32, bit by bit from bit i with a borrow
RECURSIVE SubBits(_, _, _, _)
SubBits(w, v, i, borrow) ==
    IF i = WordBits THEN {}
    ELSE LET d == (IF i \in w THEN 1 ELSE 0) - (IF i \in v THEN 1 ELSE 0) - borrow
         IN  (IF d % 2 = 1 THEN {i} ELSE {})
                \cup SubBits(w, v, i + 1, IF d < 0 THEN 1 ELSE 0)

SubW(w, v) == SubBits(w, v, 0, 0)

\* bits.TrailingZeros32 of a nonzero word
TrailingZeros32(w) == CHOOSE i \in w : \A j \in w : i <= j

\* NewEmptyBitArray: one word, size 0
NewEmptyBitArray == [bits |-> MakeWords(1), size |-> 0]

\* (*BitArray).EnsureCapacity(size): the new slice has `size` words
EnsureCapacity(b, size) ==
    IF size > Len0(b.bits) * WordBits
    THEN [b EXCEPT !.bits = [i \in 0 .. (size - 1) |->
                                IF i < Len0(b.bits) THEN b.bits[i] ELSE Zero]]
    ELSE b

\* what follows the scan loop of GetNextSet and GetNextUnset once it has
\* stopped at word bitsOffset with currentBits nonzero
ScanResult(b, bitsOffset, currentBits) ==
    LET result == (bitsOffset * WordBits) + TrailingZeros32(currentBits)
    IN  IF result > b.size THEN b.size ELSE result

\* the scan loop of GetNextSet and GetNextUnset over the words, each xored
\* with `inv` (0 for GetNextSet, ^0 for GetNextUnset): it stops at word
\* bitsOffset if currentBits is nonzero, else at the first later word that is
\* nonzero, and returns size when it has passed the last word
NextScan(b, inv, bitsOffset, currentBits) ==
    LET later == {k \in (bitsOffset + 1) .. (Len0(b.bits) - 1) :
                     XorW(b.bits[k], inv) # Zero}
    IN  IF currentBits # Zero THEN ScanResult(b, bitsOffset, currentBits)
        ELSE IF later = {} THEN b.size
             ELSE LET k == CHOOSE i \in later : \A j \in later : i <= j
                  IN  ScanResult(b, k, XorW(b.bits[k], inv))

\* GetNextSet without the mask on the first word
GetNextSetNoMask(b, from) ==
    IF from >= b.size THEN b.size
    ELSE NextScan(b, Zero, from \div WordBits, b.bits[from \div WordBits])

\* (*BitArray).GetNextSet(from): the first word is masked with
\* ^((1 << (from & 0x1F)) - 1)
GetNextSet(b, from) ==
    IF from >= b.size THEN b.size
    ELSE LET bitsOffset == from \div WordBits
             mask == Not(SubW(Shl({0}, from % 32), {0}))
         IN  NextScan(b, Zero, bitsOffset, And(b.bits[bitsOffset], mask))

\* (*BitArray).GetNextUnset(from): the first word is complemented and masked
\* with ^((1 << (from & 0x3F)) - 1), the shift being one of a uint32
GetNextUnset(b, from) ==
    IF from >= b.size THEN b.size
    ELSE LET bitsOffset == from \div WordBits
             mask == Not(SubW(Shl({0}, from % 64), {0}))
         IN  NextScan(b, BitIdx, bitsOffset, And(Not(b.bits[bitsOffset]), mask))

\* the error of (*BitArray).SetRange(start, end), or "nil"
SetRangeErr(b, start, end) ==
    IF (end < start) \/ (end > b.size)
    THEN "Invalid argument passed to SetRange on BitArray"
    ELSE "nil"

\* the mask with 1 << lastBit in place of 2 << lastBit
RangeMaskExclusive(i, start, end) ==
    LET firstInt == start \div WordBits
        lastInt == end \div WordBits
        firstBit == IF i > firstInt THEN 0 ELSE start % WordBits
        lastBit == IF i < lastInt THEN 31 ELSE end % WordBits
    IN  SubW(Shl({0}, lastBit), Shl({0}, firstBit))

\* the mask of word i in SetRange, `end` already decremented:
\* uint32((2 << lastBit) - (1 << firstBit))
RangeMask(i, start, end) ==
    LET firstInt == start \div WordBits
        lastInt == end \div WordBits
        firstBit == IF i > firstInt THEN 0 ELSE start % WordBits
        lastBit == IF i < lastInt THEN 31 ELSE end % WordBits
    IN  SubW(Shl({1}, lastBit), Shl({0}, firstBit))

\* the array after (*BitArray).SetRange(start, end)
SetRange(b, start, end) ==
    IF (SetRangeErr(b, start, end) # "nil") \/ (end = start) THEN b
    ELSE LET firstInt == start \div WordBits
             lastInt == (end - 1) \div WordBits
         IN  [b EXCEPT !.bits =
                [i \in DOMAIN b.bits |->
                    IF (firstInt <= i) /\ (i <= lastInt)
                    THEN Or(b.bits[i], RangeMask(i, start, end - 1))
                    ELSE b.bits[i]]]

\* (*BitArray).AppendBit(bit)
AppendBit(b, bit) ==
    LET e == EnsureCapacity(b, b.size + 1)
    IN  [bits |-> IF bit
                  THEN [e.bits EXCEPT ![b.size \div WordBits] = Or(@, BitMask(b.size))]
                  ELSE e.bits,
         size |-> b.size + 1]

\* the error of (*BitArray).AppendBits(value, numBits), or "nil"
AppendBitsErr(numBits) ==
    IF numBits > 32 THEN "Num bits must be between 0 and 32" ELSE "nil"

\* the loop of AppendBits: AppendBit of bit numBitsLeft - 1 of value,
\* downwards (next.size > 0 always holds: it has the array of one iteration
\* computed before the next iteration begins)
RECURSIVE AppendBitsLoop(_, _, _)
AppendBitsLoop(b, value, numBitsLeft) ==
    IF numBitsLeft > 0
    THEN LET next == AppendBit(b, And(Shr(value, numBitsLeft - 1), {0}) = {0})
         IN  IF next.size > 0
             THEN AppendBitsLoop(next, value, numBitsLeft - 1)
             ELSE next
    ELSE b

\* the array after (*BitArray).AppendBits(value, numBits)
AppendBits(b, value, numBits) ==
    IF AppendBitsErr(numBits) # "nil" THEN b
    ELSE AppendBitsLoop(EnsureCapacity(b, b.size + numBits), value, numBits)

\* the loop of AppendBitArray: AppendBit of bit i of other, upwards
RECURSIVE AppendBitArrayLoop(_, _, _)
AppendBitArrayLoop(b, other, i) ==
    IF i < other.size
    THEN LET next == AppendBit(b, GetA(other, i))
         IN  IF next.size > 0
             THEN AppendBitArrayLoop(next, other, i + 1)
             ELSE next
    ELSE b

\* (*BitArray).AppendBitArray(other), other another array
AppendBitArray(b, other) ==
    AppendBitArrayLoop(EnsureCapacity(b, b.size + other.size), other, 0)

\* the error of (*BitArray).Xor(other), "nil", or "panic": the loop runs
\* over the words of the receiver and indexes the words of other with them
XorAErr(b, other) ==
    IF b.size # other.size THEN "Sizes don't match"
    ELSE IF Len0(b.bits) > Len0(other.bits) THEN "panic"
         ELSE "nil"

\* the array after (*BitArray).Xor(other); on a panic the words before it
\* have been written
XorA(b, other) ==
    IF b.size # other.size THEN b
    ELSE [b EXCEPT !.bits = [i \in DOMAIN b.bits |->
                               IF i < Len0(other.bits)
                               THEN XorW(b.bits[i], other.bits[i])
                               ELSE b.bits[i]]]

\* the words of the receiver at which the loop of (*BitArray).Equals stops:
\* a word other does not have, or a word that differs
EqualsStops(b, other) ==
    {i \in DOMAIN b.bits :
        IF i < Len0(other.bits) THEN b.bits[i] # other.bits[i] ELSE TRUE}

\* "panic" when (*BitArray).Equals(other) indexes other out of range, else
\* "nil"
EqualsAErr(b, other) ==
    IF b.size # other.size \/ EqualsStops(b, other) = {} THEN "nil"
    ELSE LET i == CHOOSE k \in EqualsStops(b, other) :
                      \A j \in EqualsStops(b, other) : k <= j
         IN  IF i < Len0(other.bits) THEN "nil" ELSE "panic"

\* what (*BitArray).Equals(other) returns when it returns
EqualsA(b, other) ==
    b.size = other.size /\ EqualsStops(b, other) = {}

-----------------------------------------------------------------------------
(* internal.SliceCopyU32 *)

\* the error of SliceCopyU32(src, dest, 0, 0, length) for length >= 0, or "nil"
SliceCopyErr(src, dest, length) ==
    IF Len0(src) < length THEN "srcPos + length is larger than the length of src"
    ELSE IF Len0(dest) < length
         THEN "destPos + length is larger than the length of dest"
         ELSE "nil"

\* dest after SliceCopyU32(src, dest, 0, 0, length)
SliceCopyU32(src, dest, length) ==
    IF SliceCopyErr(src, dest, length) # "nil" THEN dest
    ELSE [i \in DOMAIN dest |-> IF i < length THEN src[i] ELSE dest[i]]

\* internal.SliceCloneU32: a new slice of len(slice) words, each copied
SliceCloneU32(slice) == [i \in 0 .. (Len0(slice) - 1) |-> slice[i]]

\* the value of (*BitArray).Clone
CloneA(b) == [bits |-> SliceCloneU32(b.bits), size |-> b.size]

-----------------------------------------------------------------------------
(* BitMatrix: construction and single bits *)

\* NewBitMatrix(width, height) for width, height > 0
NewBitMatrix(width, height) ==
    LET rowSize == (width + 31) \div WordBits
    IN  [width |-> width, height |-> height, rowSize |-> rowSize,
         bits |-> [y \in 0 .. (height - 1) |-> MakeWords(rowSize)]]

\* (*BitMatrix).Get(x, y)
Get(bm, x, y) ==
    And(Shr(bm.bits[y][x \div WordBits], x % WordBits), {0}) # Zero

\* (*BitMatrix).Set(x, y)
Set(bm, x, y) ==
    [bm EXCEPT !.bits[y][x \div WordBits] = Or(@, BitMask(x))]

\* Unset without the complement of the mask: &= (1 << (x & 0x1F))
UnsetNoComplement(bm, x, y) ==
    [bm EXCEPT !.bits[y][x \div WordBits] = And(@, BitMask(x))]

\* (*BitMatrix).Unset(x, y)
Unset(bm, x, y) ==
    [bm EXCEPT !.bits[y][x \div WordBits] = And(@, Not(BitMask(x)))]

\* (*BitMatrix).Flip(x, y)
Flip(bm, x, y) ==
    [bm EXCEPT !.bits[y][x \div WordBits] = XorW(@, BitMask(x))]

\* (*BitMatrix).Clear
Clear(bm) ==
    [bm EXCEPT !.bits = [y \in 0 .. (bm.height - 1) |->
                            [x \in 0 .. (bm.rowSize - 1) |-> Zero]]]

\* (*BitMatrix).Equals(other)
Equals(bm, other) ==
    /\ bm.width = other.width
    /\ bm.height = other.height
    /\ bm.rowSize = other.rowSize
    /\ \A y \in 0 .. (bm.height - 1) : \A x \in 0 .. (bm.rowSize - 1) :
          bm.bits[y][x] = other.bits[y][x]

\* the value of (*BitMatrix).Clone
Clone(bm) ==
    [width |-> bm.width, height |-> bm.height, rowSize |-> bm.rowSize,
     bits |-> [i \in 0 .. (Len0(bm.bits) - 1) |-> SliceCloneU32(bm.bits[i])]]

-----------------------------------------------------------------------------
(* BitMatrix: rows *)

\* the nil *BitArray
NilRow == [bits |-> <<>>, size |-> -1]

\* the loop of GetRow: SetBulk(x*32, bits[y][x]) for x = from .. rowSize-1
RECURSIVE GetRowFill(_, _, _, _)
GetRowFill(bm, y, row, x) ==
    IF x < bm.rowSize
    THEN GetRowFill(bm, y, SetBulk(row, x * WordBits, bm.bits[y][x]), x + 1)
    ELSE row

\* (*BitMatrix).GetRow(y, row)
GetRow(bm, y, row) ==
    GetRowFill(bm, y,
               IF row = NilRow \/ row.size < bm.width
               THEN NewBitArray(bm.width)
               ELSE ClearA(row),
               0)

\* the error of (*BitMatrix).SetRow(y, row), or "nil"
SetRowErr(bm, y, row) == SliceCopyErr(row.bits, bm.bits[y], bm.rowSize)

\* the grid after (*BitMatrix).SetRow(y, row)
SetRow(bm, y, row) ==
    [bm EXCEPT !.bits[y] = SliceCopyU32(row.bits, @, bm.rowSize)]

-----------------------------------------------------------------------------
(* BitMatrix: Xor *)

\* the dimension check of Xor without the comparison of the heights
XorErrNoHeight(bm, mask) ==
    IF (bm.width # mask.width) \/ (bm.rowSize # mask.rowSize)
    THEN "input matrix dimensions do not match"
    ELSE "nil"

\* the error of (*BitMatrix).Xor(mask), or "nil"
XorErr(bm, mask) ==
    IF (bm.width # mask.width) \/ (bm.height # mask.height)
          \/ (bm.rowSize # mask.rowSize)
    THEN "input matrix dimensions do not match"
    ELSE "nil"

\* Xor with |= in place of ^= in the inner loop
XorAsOr(bm, mask) ==
    IF XorErr(bm, mask) # "nil" THEN bm
    ELSE [bm EXCEPT !.bits =
            [y \in 0 .. (bm.height - 1) |->
                [x \in 0 .. (bm.rowSize - 1) |->
                    Or(bm.bits[y][x], mask.bits[y][x])]]]

\* the grid after (*BitMatrix).Xor(mask): each row of the mask is read
\* through GetRow into rowArray, a BitArray of (width / 32) + 1 bits
Xor(bm, mask) ==
    IF XorErr(bm, mask) # "nil" THEN bm
    ELSE LET rowArray == NewBitArray((bm.width \div WordBits) + 1)
         IN  [bm EXCEPT !.bits =
                [y \in 0 .. (bm.height - 1) |->
                    LET row == GetBitArray(GetRow(mask, y, rowArray))
                    IN  [x \in 0 .. (bm.rowSize - 1) |->
                            XorW(bm.bits[y][x], row[x])]]]

-----------------------------------------------------------------------------
(* BitMatrix: SetRegion; left, top, width, height are uint32 pairs *)

\* the error of (*BitMatrix).SetRegion(left, top, width, height), or "nil";
\* right and bottom are sums on uint32
SetRegionErr(bm, left, top, width, height) ==
    IF (height = U32(0)) \/ (width = U32(0))
    THEN "Height and width must be at least 1"
    ELSE LET right == AddU32(left, width)
             bottom == AddU32(top, height)
         IN  IF GtU32(bottom, U32(bm.height)) \/ GtU32(right, U32(bm.width))
             THEN "The region must fit inside the matrix"
             ELSE "nil"

\* the values i takes in: for i := from; i < to; i++, for to below 2^16
LoopRange(from, to) ==
    IF LtU32(from, to) THEN ValU32(from) .. (ValU32(to) - 1) ELSE {}

\* the grid after (*BitMatrix).SetRegion(left, top, width, height)
SetRegion(bm, left, top, width, height) ==
    IF SetRegionErr(bm, left, top, width, height) # "nil" THEN bm
    ELSE LET ys == LoopRange(top, AddU32(top, height))
             xs == LoopRange(left, AddU32(left, width))
         IN  [bm EXCEPT !.bits =
                [y \in 0 .. (bm.height - 1) |->
                    [w \in 0 .. (bm.rowSize - 1) |->
                        IF y \in ys
                        THEN Or(bm.bits[y][w],
                                {x % WordBits : x \in {c \in xs : c \div WordBits = w}})
                        ELSE bm.bits[y][w]]]]

-----------------------------------------------------------------------------
(* BitMatrix: Rotate180 *)

\* the loop of Rotate180 from row pair i on: [bm, err]
RECURSIVE Rotate180Loop(_, _, _, _)
Rotate180Loop(bm, i, topRow, bottomRow) ==
    IF i < (bm.height + 1) \div 2
    THEN LET t == ReverseA(GetRow(bm, i, topRow))
             b == ReverseA(GetRow(bm, bm.height - 1 - i, bottomRow))
             e1 == SetRowErr(bm, i, b)
             bm1 == SetRow(bm, i, b)
             e2 == SetRowErr(bm1, bm.height - 1 - i, t)
             bm2 == SetRow(bm1, bm.height - 1 - i, t)
         IN  IF e1 # "nil" THEN [bm |-> bm, err |-> e1]
             ELSE IF e2 # "nil" THEN [bm |-> bm1, err |-> e2]
                  ELSE Rotate180Loop(bm2, i + 1, t, b)
    ELSE [bm |-> bm, err |-> "nil"]

\* (*BitMatrix).Rotate180: the grid afterwards and the error returned
Rotate180(bm) ==
    Rotate180Loop(bm, 0, NewBitArray(bm.width), NewBitArray(bm.width))

-----------------------------------------------------------------------------
(* BitMatrix: the geometric queries *)

\* results: nil, a slice of numbers, or a call that never returns
Nil == [kind |-> "nil", v |-> <<>>]

Hang == [kind |-> "hang", v |-> <<>>]

Some(t) == [kind |-> "some", v |-> t]

\* for (theBits << (31 - bit)) == 0 { bit++ }, on a nonzero word
RECURSIVE ScanLow(_, _)
ScanLow(theBits, bit) ==
    IF Shl(theBits, 31 - bit) = Zero THEN ScanLow(theBits, bit + 1) ELSE bit

\* for (theBits >> bit) == 0 { bit-- }, on a nonzero word
RECURSIVE ScanHigh(_, _)
ScanHigh(theBits, bit) ==
    IF Shr(theBits, bit) = Zero THEN ScanHigh(theBits, bit - 1) ELSE bit

\* the body of GetEnclosingRectangle's loops for the word x32 of row y
EnclosingStep(bm, y, x32, r) ==
    LET theBits == bm.bits[y][x32]
        top == IF y < r.top THEN y ELSE r.top
        bottom == IF y > r.bottom THEN y ELSE r.bottom
        lo == (x32 * WordBits) + ScanLow(theBits, 0)
        hi == (x32 * WordBits) + ScanHigh(theBits, 31)
        left == IF (x32 * WordBits) < r.left /\ lo < r.left THEN lo ELSE r.left
        right == IF ((x32 * WordBits) + 31) > r.right /\ hi > r.right
                 THEN hi ELSE r.right
    IN  IF theBits # Zero
        THEN [left |-> left, top |-> top, right |-> right, bottom |-> bottom]
        ELSE r

\* the loops of GetEnclosingRectangle, rows and words in order, from word k
\* of the row-major order
RECURSIVE EnclosingLoop(_, _, _)
EnclosingLoop(bm, k, r) ==
    IF k < bm.height * bm.rowSize
    THEN EnclosingLoop(bm, k + 1,
                       EnclosingStep(bm, k \div bm.rowSize, k % bm.rowSize, r))
    ELSE r

\* (*BitMatrix).GetEnclosingRectangle
GetEnclosingRectangle(bm) ==
    LET r == EnclosingLoop(bm, 0, [left |-> bm.width, top |-> bm.height,
                                   right |-> -1, bottom |-> -1])
    IN  IF (r.right < r.left) \/ (r.bottom < r.top) THEN Nil
        ELSE Some(<<r.left, r.top, r.right - r.left + 1, r.bottom - r.top + 1>>)

\* GetTopLeftOnBit's inner loop: xOffset after skipping zero words of row y
RECURSIVE TopLeftInner(_, _, _)
TopLeftInner(bm, y, x) ==
    IF (x < bm.rowSize - 1) /\ (bm.bits[y][x] = Zero)
    THEN TopLeftInner(bm, y, x + 1) ELSE x

\* GetTopLeftOnBit's outer loop: <<yOffset, xOffset>> when it ends
RECURSIVE TopLeftOuter(_, _, _)
TopLeftOuter(bm, y, x) ==
    IF y < bm.height - 1
    THEN LET x1 == TopLeftInner(bm, y, x)
         IN  IF bm.bits[y][x1] = Zero THEN TopLeftOuter(bm, y + 1, x1)
             ELSE <<y, x1>>
    ELSE <<y, x>>

\* (*BitMatrix).GetTopLeftOnBit; the bit scan of a zero word never ends
GetTopLeftOnBit(bm) ==
    LET at == TopLeftOuter(bm, 0, 0)
        yOffset == at[1]
        xOffset == at[2]
        theBits == bm.bits[yOffset][xOffset]
    IN  IF (yOffset = bm.height - 1) /\ (xOffset = bm.rowSize - 1) THEN Nil
        ELSE IF theBits = Zero THEN Hang
             ELSE Some(<<(xOffset * WordBits) + ScanLow(theBits, 0), yOffset>>)

\* GetBottomRightOnBit's inner loop: xOffset after skipping zero words of row y
RECURSIVE BottomRightInner(_, _, _)
BottomRightInner(bm, y, x) ==
    IF bm.bits[y][x] = Zero /\ x # 0
    THEN BottomRightInner(bm, y, x - 1) ELSE x

\* GetBottomRightOnBit's outer loop: <<yOffset, xOffset>> when it ends
RECURSIVE BottomRightOuter(_, _, _)
BottomRightOuter(bm, y, x) ==
    LET x1 == BottomRightInner(bm, y, x)
    IN  IF bm.bits[y][x1] = Zero /\ y # 0 THEN BottomRightOuter(bm, y - 1, x1)
        ELSE <<y, x1>>

\* (*BitMatrix).GetBottomRightOnBit; the bit scan of a zero word never ends
GetBottomRightOnBit(bm) ==
    LET at == BottomRightOuter(bm, bm.height - 1, bm.rowSize - 1)
        yOffset == at[1]
        xOffset == at[2]
        theBits == bm.bits[yOffset][xOffset]
    IN  IF (yOffset = 0) /\ (xOffset = 0) THEN Nil
        ELSE IF theBits = Zero THEN Hang
             ELSE Some(<<(xOffset * WordBits) + ScanHigh(theBits, 31), yOffset>>)

-----------------------------------------------------------------------------
(* BitMatrix: ParseToBitMatrix; image is a function row -> column -> BOOLEAN *)

\* ParseToBitMatrix(image) for an image of at least one row and one column:
\* a new grid in which Set(j, i) was called for every true image[i][j], that
\* is, word w of row i holds the bits j % 32 of the true columns j of word w
ParseToBitMatrix(image) ==
    LET bm == NewBitMatrix(Len0(image[0]), Len0(image))
    IN  [bm EXCEPT !.bits =
            [i \in 0 .. (bm.height - 1) |->
                [w \in 0 .. (bm.rowSize - 1) |->
                    {j % WordBits :
                        j \in {c \in 0 .. (bm.width - 1) :
                                  c \div WordBits = w /\ image[i][c]}}]]]

-----------------------------------------------------------------------------
(* BitMatrix: its text form.  A string is the sequence of its characters,   *)
(* each a one-character string; position pos of the code is element pos + 1 *)

\* no grid
NoGrid == [width |-> 0, height |-> 0, rowSize |-> 0, bits |-> <<>>]

\* the zero rune: what a []rune holds between its length and its capacity
NUL == "NUL"

\* runes[from:to] for to within the capacity: beyond len(runes) it reads NUL
RuneSlice(runes, from, to) ==
    [i \in 1 .. (to - from) |->
        IF from + i <= Len(runes) THEN runes[from + i] ELSE NUL]

\* internal.CompareRuneSlices
CompareRuneSlices(x, y) ==
    /\ Len(x) = Len(y)
    /\ \A i \in 1 .. Len(x) : x[i] = y[i]

\* the outcomes of ParseStringToBitMatrix: a grid, an error, or a panic of
\* the runtime (a slice beyond the capacity, an index beyond the length)
ParseOk(bm) == [err |-> "nil", grid |-> bm]

ParseError(msg) == [err |-> msg, grid |-> NoGrid]

ParsePanic == [err |-> "panic", grid |-> NoGrid]

\* the end of a row in ParseStringToBitMatrix, at a terminator or at the end
\* of the text: the locals afterwards; st holds the locals, and st.mismatch
\* that the code returned "row lengths do not match"
EndOfRow(st) ==
    LET bitsPos == Len(st.bits)
    IN  IF bitsPos > st.rowStartPos
        THEN IF st.rowLength = -1
             THEN [st EXCEPT !.rowLength = bitsPos - st.rowStartPos,
                             !.rowStartPos = bitsPos, !.nRows = @ + 1]
             ELSE IF (bitsPos - st.rowStartPos) # st.rowLength
                  THEN [st EXCEPT !.mismatch = TRUE]
                  ELSE [st EXCEPT !.rowStartPos = bitsPos, !.nRows = @ + 1]
        ELSE st

\* the grid built with the roles of i % rowLength and i / rowLength exchanged
ParsedGridColumnMajor(st) ==
    IF st.nRows = 0
    THEN ParseError("Both dimensions must be greater than 0")
    ELSE ParseOk(ParseToBitMatrix(
             [y \in 0 .. (st.nRows - 1) |->
                 [x \in 0 .. (st.rowLength - 1) |->
                     st.bits[(x * st.nRows) + y + 1]]]))

\* the grid ParseStringToBitMatrix builds from its bits: Set(i % rowLength,
\* i / rowLength) for every true bits[i]
ParsedGrid(st) ==
    IF st.nRows = 0
    THEN ParseError("Both dimensions must be greater than 0")
    ELSE ParseOk(ParseToBitMatrix(
             [y \in 0 .. (st.nRows - 1) |->
                 [x \in 0 .. (st.rowLength - 1) |->
                     st.bits[(y * st.rowLength) + x + 1]]]))

\* the loop of ParseStringToBitMatrix and what follows it; cap is the
\* capacity of runes and size the length of the bits slice
RECURSIVE ParseLoop(_, _, _, _, _, _)
ParseLoop(runes, cap, size, setRunes, unsetRunes, st) ==
    IF st.pos < Len(runes)
    THEN IF runes[st.pos + 1] \in {"\n", "\r"}
         THEN IF EndOfRow(st).mismatch
              THEN ParseError("row lengths do not match")
              ELSE ParseLoop(runes, cap, size, setRunes, unsetRunes,
                             [EndOfRow(st) EXCEPT !.pos = @ + 1])
         ELSE IF st.pos + Len(setRunes) > cap THEN ParsePanic
         ELSE IF CompareRuneSlices(
                     RuneSlice(runes, st.pos, st.pos + Len(setRunes)), setRunes)
         THEN IF Len(st.bits) >= size THEN ParsePanic
              ELSE ParseLoop(runes, cap, size, setRunes, unsetRunes,
                             [st EXCEPT !.pos = @ + Len(setRunes),
                                        !.bits = Append(@, TRUE)])
         ELSE IF st.pos + Len(unsetRunes) > cap THEN ParsePanic
         ELSE IF CompareRuneSlices(
                     RuneSlice(runes, st.pos, st.pos + Len(unsetRunes)), unsetRunes)
         THEN IF Len(st.bits) >= size THEN ParsePanic
              ELSE ParseLoop(runes, cap, size, setRunes, unsetRunes,
                             [st EXCEPT !.pos = @ + Len(unsetRunes),
                                        !.bits = Append(@, FALSE)])
         ELSE ParseError("illegal character encountered")
    ELSE IF EndOfRow(st).mismatch
         THEN ParseError("row lengths do not match")
         ELSE ParsedGrid(EndOfRow(st))

\* ParseStringToBitMatrix(stringRepresentation, setString, unsetString) when
\* []rune(stringRepresentation) has capacity cap
ParseStringToBitMatrix(stringRepresentation, setString, unsetString, cap) ==
    ParseLoop(stringRepresentation, cap, Len(stringRepresentation),
              setString, unsetString,
              [pos |-> 0, bits |-> <<>>, rowStartPos |-> 0, rowLength |-> -1,
               nRows |-> 0, mismatch |-> FALSE])

\* the text of row y from column x on, then the line separator
RECURSIVE BuildRow(_, _, _, _, _, _)
BuildRow(bm, setString, unsetString, lineSeperator, y, x) ==
    IF x < bm.width
    THEN (IF Get(bm, x, y) THEN setString ELSE unsetString)
            \o BuildRow(bm, setString, unsetString, lineSeperator, y, x + 1)
    ELSE lineSeperator

\* (*BitMatrix).buildToString, from row y on
RECURSIVE buildToString(_, _, _, _, _)
buildToString(bm, setString, unsetString, lineSeperator, y) ==
    IF y < bm.height
    THEN BuildRow(bm, setString, unsetString, lineSeperator, y, 0)
            \o buildToString(bm, setString, unsetString, lineSeperator, y + 1)
    ELSE <<>>

\* (*BitMatrix).ToString(setString, unsetString)
ToString(bm, setString, unsetString) ==
    buildToString(bm, setString, unsetString, <<"\n">>, 0)

-----------------------------------------------------------------------------
(* The inputs of the model *)

\* the grids built, <<width, height>>: rows of one word, of one word and a
\* bit, of two full words, of three words
Dims == {<<1, 1>>, <<5, 3>>, <<33, 2>>, <<64, 1>>, <<70, 3>>}

\* the columns and rows the single-bit operations are called on
Xs(w) == {0, 31, 32, w - 1} \cap (0 .. (w - 1))

Ys(h) == {0, h - 1}

\* the [][]bool of w columns and h rows that is true exactly on cells
ImageOf(w, h, cells) ==
    [i \in 0 .. (h - 1) |-> [j \in 0 .. (w - 1) |-> <<j, i>> \in cells]]

\* the cells the single-bit operations are called on
Cells(w, h) == Xs(w) \X Ys(h)

\* the images the grid is parsed from: all clear, or one cell set
GridImages(w, h) ==
    {ImageOf(w, h, {})} \cup {ImageOf(w, h, {c}) : c \in Cells(w, h)}

\* the masks a grid of w by h is xored with: one of its own dimensions,
\* one a column wider, one a row higher
MaskImages(w, h) ==
    {ImageOf(w, h, {<<0, 0>>, <<w - 1, h - 1>>}),
     ImageOf(w + 1, h, {<<w, 0>>}),
     ImageOf(w, h + 1, {<<0, 0>>, <<0, h>>})}

\* the uint32 arguments SetRegion is called with, <<left, top, width, height>>:
\* every left and width on the first row, every top and height at column 1
Lefts == {U32(1), U32(31), MaxU32}

Widths == {U32(0), U32(2), MaxU32}

Tops == {U32(0), U32(1)}

Heights == {U32(0), U32(1), MaxU32}

RegionArgs ==
    {<<left, U32(0), width, U32(1)>> : left \in Lefts, width \in Widths}
       \cup {<<U32(1), top, U32(2), height>> : top \in Tops, height \in Heights}

-----------------------------------------------------------------------------
(* The state machine: a grid m, a second grid a, and the last call made *)

\* the record of a call: its name, arguments, error and result, and `twice`:
\* the grid before the call before it, when that was a call of the same
\* operation (kept for Rotate180 and Xor), else NoGrid
Call(op, args, err, res, twice) ==
    [op |-> op, args |-> args, err |-> err, res |-> res, twice |-> twice]

\* no text
NoText == [text |-> <<>>, set |-> <<>>, unset |-> <<>>, of |-> NoGrid]

Twice(op) == IF last.op = op /\ last.err = "nil" THEN prev ELSE NoGrid

\* no second array, and nothing in the storage
NoStore ==
    /\ brr = NewEmptyBitArray
    /\ heap = <<>>
    /\ refs = <<>>

Init ==
    /\ \E d \in Dims :
          /\ \E image \in GridImages(d[1], d[2]) : m = ParseToBitMatrix(image)
          /\ \E image \in MaskImages(d[1], d[2]) : a = ParseToBitMatrix(image)
    /\ prev = m
    /\ last = Call("ParseToBitMatrix", <<>>, "nil", Nil, NoGrid)
    /\ steps = 0
    /\ arr = NewEmptyBitArray
    /\ txt = NoText
    /\ NoStore

\* what every call does besides its own effect
Log(op, args, err, res, twice) ==
    /\ steps < MaxSteps
    /\ steps' = steps + 1
    /\ prev' = m
    /\ last' = Call(op, args, err, res, twice)

\* a call that leaves the second array and the storage alone
Record(op, args, err, res, twice) ==
    /\ Log(op, args, err, res, twice)
    /\ UNCHANGED <<brr, heap, refs>>

\* a call on the grid leaves the array and the text alone
Step(op, args, err, res, twice) ==
    /\ Record(op, args, err, res, twice)
    /\ UNCHANGED <<arr, txt>>

CallSet ==
    \E x \in Xs(m.width), y \in Ys(m.height) :
        /\ m' = Set(m, x, y)
        /\ Step("Set", <<x, y>>, "nil", Nil, NoGrid)
        /\ UNCHANGED a

CallUnset ==
    \E x \in Xs(m.width), y \in Ys(m.height) :
        /\ m' = Unset(m, x, y)
        /\ Step("Unset", <<x, y>>, "nil", Nil, NoGrid)
        /\ UNCHANGED a

CallFlip ==
    \E x \in Xs(m.width), y \in Ys(m.height) :
        /\ m' = Flip(m, x, y)
        /\ Step("Flip", <<x, y>>, "nil", Nil, NoGrid)
        /\ UNCHANGED a

CallClear ==
    /\ m' = Clear(m)
    /\ Step("Clear", <<>>, "nil", Nil, NoGrid)
    /\ UNCHANGED a

\* m.Xor(a): the mask is only read
CallXor ==
    /\ m' = Xor(m, a)
    /\ Step("Xor", <<a>>, XorErr(m, a), Nil, Twice("Xor"))
    /\ UNCHANGED a

\* m.Xor(m): the mask is the grid itself
CallXorSelf ==
    /\ m' = Xor(m, m)
    /\ Step("XorSelf", <<>>, XorErr(m, m), Nil, NoGrid)
    /\ UNCHANGED a

CallSetRegion ==
    \E r \in RegionArgs :
        /\ m' = SetRegion(m, r[1], r[2], r[3], r[4])
        /\ Step("SetRegion", r, SetRegionErr(m, r[1], r[2], r[3], r[4]),
                Nil, NoGrid)
        /\ UNCHANGED a

CallRotate180 ==
    /\ m' = Rotate180(m).bm
    /\ Step("Rotate180", <<>>, Rotate180(m).err, Nil, Twice("Rotate180"))
    /\ UNCHANGED a

CallGetEnclosingRectangle ==
    /\ Step("GetEnclosingRectangle", <<>>, "nil", GetEnclosingRectangle(m), NoGrid)
    /\ UNCHANGED <<m, a>>

CallGetTopLeftOnBit ==
    /\ Step("GetTopLeftOnBit", <<>>, "nil", GetTopLeftOnBit(m), NoGrid)
    /\ UNCHANGED <<m, a>>

CallGetBottomRightOnBit ==
    /\ Step("GetBottomRightOnBit", <<>>, "nil", GetBottomRightOnBit(m), NoGrid)
    /\ UNCHANGED <<m, a>>

Next ==
    \/ CallSet
    \/ CallUnset
    \/ CallFlip
    \/ CallClear
    \/ CallXor
    \/ CallXorSelf
    \/ CallSetRegion
    \/ CallRotate180
    \/ CallGetEnclosingRectangle
    \/ CallGetTopLeftOnBit
    \/ CallGetBottomRightOnBit

Spec == Init /\ [][Next]_vars

-----------------------------------------------------------------------------
(* TextSpec: a grid is written with ToString, a text is read with           *)
(* ParseStringToBitMatrix                                                   *)

\* the pairs <<setString, unsetString>> used: one character each, two
\* characters each, a longer set string, and an unset string that begins
\* the set string
TokenPairs ==
    {<< <<"x">>, <<" ">> >>,
     << <<"x", " ">>, <<" ", " ">> >>,
     << <<"x", "x", "x">>, <<" ">> >>,
     << <<"x", "x">>, <<"x">> >>}

\* the characters of the texts read without having been written by ToString
Alphabet == {"x", " ", "y", "\n", "\r"}

\* every text of Alphabet of length n
TextsOfLen(n) == [1 .. n -> Alphabet]

\* a text of 32 characters: a row of 15 tokens of two spaces, a terminator,
\* and one more space
LongText == [i \in 1 .. 32 |-> IF i = 31 THEN "\n" ELSE " "]

Texts == UNION {TextsOfLen(n) : n \in 0 .. MaxTextLen} \cup {LongText}

\* the grids written: <<width, height>> and every choice of corner cells
TextDims == {<<1, 1>>, <<2, 2>>, <<31, 1>>}

TextImages(w, h) == {ImageOf(w, h, c) : c \in SUBSET Cells(w, h)}

\* the capacities []rune(text) may have for a text of n characters: the
\* runtime rounds the allocation up, so any capacity from n on; one beyond
\* n + MaxSpare behaves as n + MaxSpare when no token is longer than that
RuneCaps(n) == n .. (n + MaxSpare)

InitText ==
    /\ \/ /\ m = ParseToBitMatrix(ImageOf(1, 1, {}))
          /\ \E t \in Texts, p \in TokenPairs :
                txt = [text |-> t, set |-> p[1], unset |-> p[2], of |-> NoGrid]
       \/ /\ \E d \in TextDims : \E image \in TextImages(d[1], d[2]) :
                m = ParseToBitMatrix(image)
          /\ txt = NoText
    /\ a = m
    /\ prev = m
    /\ last = Call("ParseToBitMatrix", <<>>, "nil", Nil, NoGrid)
    /\ steps = 0
    /\ arr = NewEmptyBitArray
    /\ NoStore

\* txt = m.ToString(set, unset); the text remembers the grid it is of
CallToString ==
    \E p \in TokenPairs :
        /\ txt' = [text |-> ToString(m, p[1], p[2]), set |-> p[1],
                   unset |-> p[2], of |-> m]
        /\ Record("ToString", p, "nil", Nil, NoGrid)
        /\ UNCHANGED <<m, a, arr>>

\* ParseStringToBitMatrix(txt.text, txt.set, txt.unset): the grid returned is
\* last.res, NoGrid when none is
CallParseStringToBitMatrix ==
    /\ txt # NoText
    /\ \E cap \in RuneCaps(Len(txt.text)) :
          LET r == ParseStringToBitMatrix(txt.text, txt.set, txt.unset, cap)
          IN  Record("ParseStringToBitMatrix", <<txt, cap>>, r.err, r.grid, NoGrid)
    /\ UNCHANGED <<m, a, arr, txt>>

NextText ==
    \/ CallToString
    \/ CallParseStringToBitMatrix

TextSpec == InitText /\ [][NextText]_vars

-----------------------------------------------------------------------------
(* The arrays of ArraySpec and RowSpec *)

\* the sizes of the arrays built: within one word, one word, one word and a
\* bit, two words, more than two words
ArraySizes == {1, 5, 32, 33, 64, 70}

\* the indices the single-bit operations and the searches are called on
Probes(size) == {0, 4, 31, 32, 63, 64, size - 1} \cap (0 .. (size - 1))

\* NewBitArray(size) after Set(i) for every i of S
ArrayOf(size, S) ==
    [bits |-> [w \in 0 .. (((size + 31) \div WordBits) - 1) |->
                  {i % WordBits : i \in {j \in S : j \div WordBits = w}}],
     size |-> size]

\* the sets of indices set in an array of a size: none, one at an end or at
\* a word boundary, all, and all but one of those
Contents(size) ==
    LET ends == {0, 31, 32, size - 1} \cap (0 .. (size - 1))
    IN  {{}} \cup {{i} : i \in ends} \cup {0 .. (size - 1)}
           \cup {(0 .. (size - 1)) \ {i} : i \in ends}

\* the arrays a behaviour starts from: the empty array, the arrays above,
\* and an array of 33 bits appended to the empty array
Arrays ==
    {NewEmptyBitArray}
       \cup UNION {{ArrayOf(size, S) : S \in Contents(size)} :
                       size \in ArraySizes}
       \cup {AppendBit(AppendBits(NewEmptyBitArray, {0, 31}, 32), TRUE)}

-----------------------------------------------------------------------------
(* RowSpec: rows are read from the grid into the array and written back *)

\* the grids of RowSpec
RowDims == {<<5, 3>>, <<33, 2>>, <<70, 3>>}

\* the buffers of RowSpec: nil, or an array
Buffers == {NilRow} \cup Arrays

InitRow ==
    /\ \E d \in RowDims : \E image \in GridImages(d[1], d[2]) :
          m = ParseToBitMatrix(image)
    /\ arr \in Buffers
    /\ a = m
    /\ prev = m
    /\ last = Call("ParseToBitMatrix", <<>>, "nil", Nil, NoGrid)
    /\ steps = 0
    /\ txt = NoText
    /\ NoStore

\* arr = m.GetRow(y, arr)
CallGetRow ==
    \E y \in Ys(m.height) :
        /\ arr' = GetRow(m, y, arr)
        /\ Record("GetRow", <<y, arr>>, "nil", Nil, NoGrid)
        /\ UNCHANGED <<m, a, txt>>

\* m.SetRow(y, arr); a nil arr is dereferenced, which panics
CallSetRow ==
    \E y \in Ys(m.height) :
        /\ m' = IF arr = NilRow THEN m ELSE SetRow(m, y, arr)
        /\ Record("SetRow", <<y, arr>>,
                  IF arr = NilRow THEN "panic" ELSE SetRowErr(m, y, arr),
                  Nil, NoGrid)
        /\ UNCHANGED <<a, arr, txt>>

NextRow ==
    \/ CallGetRow
    \/ CallSetRow
    \/ CallRotate180

RowSpec == InitRow /\ [][NextRow]_vars

-----------------------------------------------------------------------------
(* ArraySpec: the array under its own operations; last.args[1] is the array *)
(* before the call                                                          *)

\* the <<value, numBits>> AppendBits is called with: no bit, one bit, three
\* bits of 5, the 32 bits of 0x80000001 and of 0x7FFFFFFE, 33 bits
AppendArgs ==
    {<<BitIdx, 0>>, <<Zero, 1>>, <<{0, 2}, 3>>, <<{0, 31}, 32>>,
     <<BitIdx \ {0, 31}, 32>>, <<BitIdx, 33>>}

\* the <<start, end>> SetRange is called with on an array of a size: an
\* empty range, the whole array, the last bit of the first word, a range
\* from there to the end, one past the end, and one that ends before it
\* starts
RangeArgs(size) ==
    {<<0, 0>>, <<0, size>>, <<31, 32>>, <<31, size>>, <<0, size + 1>>,
     <<32, 31>>}

\* the indices the searches start from
Froms(size) == Probes(size) \cup {size}

InitArray ==
    /\ arr \in Arrays
    /\ m = ParseToBitMatrix(ImageOf(1, 1, {}))
    /\ a = m
    /\ prev = m
    /\ last = Call("NewBitArray", <<arr>>, "nil", 0, NoGrid)
    /\ steps = 0
    /\ txt = NoText
    /\ NoStore

\* a call on the array leaves the grids and the text alone; the number a
\* search returns is last.res
ArrayStep(op, args, err, res) ==
    /\ Record(op, args, err, res, NoGrid)
    /\ UNCHANGED <<m, a, txt>>

CallAppendBit ==
    \E bit \in BOOLEAN :
        /\ arr' = AppendBit(arr, bit)
        /\ ArrayStep("AppendBit", <<arr, bit>>, "nil", 0)

CallAppendBits ==
    \E r \in AppendArgs :
        /\ arr' = AppendBits(arr, r[1], r[2])
        /\ ArrayStep("AppendBits", <<arr, r[1], r[2]>>, AppendBitsErr(r[2]), 0)

CallSetRange ==
    \E r \in RangeArgs(arr.size) :
        /\ arr' = SetRange(arr, r[1], r[2])
        /\ ArrayStep("SetRange", <<arr, r[1], r[2]>>,
                     SetRangeErr(arr, r[1], r[2]), 0)

\* Reverse of an array of size 0 indexes its words out of range: a panic
CallReverse ==
    /\ arr' = IF arr.size = 0 THEN arr ELSE ReverseA(arr)
    /\ ArrayStep("Reverse", <<arr>>, IF arr.size = 0 THEN "panic" ELSE "nil", 0)

CallGetNextSet ==
    \E from \in Froms(arr.size) :
        /\ ArrayStep("GetNextSet", <<arr, from>>, "nil", GetNextSet(arr, from))
        /\ UNCHANGED arr

CallGetNextUnset ==
    \E from \in Froms(arr.size) :
        /\ ArrayStep("GetNextUnset", <<arr, from>>, "nil",
                     GetNextUnset(arr, from))
        /\ UNCHANGED arr

\* the sizes EnsureCapacity is called with: bits of the first, the second and
\* the third word
CapacityArgs == {1, 33, 65}

CallEnsureCapacity ==
    \E size \in CapacityArgs :
        /\ arr' = EnsureCapacity(arr, size)
        /\ ArrayStep("EnsureCapacity", <<arr, size>>, "nil", 0)

CallFlipA ==
    \E i \in Probes(arr.size) :
        /\ arr' = FlipA(arr, i)
        /\ ArrayStep("Flip", <<arr, i>>, "nil", 0)

NextArray ==
    \/ CallAppendBit
    \/ CallAppendBits
    \/ CallSetRange
    \/ CallReverse
    \/ CallFlipA
    \/ CallEnsureCapacity

ArraySpec == InitArray /\ [][NextArray]_vars

\* SearchSpec: the searches, on the arrays above and on their reversals
NextSearch ==
    \/ CallGetNextSet
    \/ CallGetNextUnset
    \/ CallReverse

SearchSpec == InitArray /\ [][NextSearch]_vars

-----------------------------------------------------------------------------
(* PairSpec: two arrays, arr under its operations and brr as the other *)

\* the arrays of PairSpec: the empty array, arrays of no bit, of 5 and of 33
\* bits
PairArrays ==
    {NewEmptyBitArray, NewBitArray(0), ArrayOf(5, {}), ArrayOf(5, {0}),
     ArrayOf(33, {}), ArrayOf(33, {1}), ArrayOf(33, {31}), ArrayOf(33, 0 .. 32)}

\* the <<i, newBits>> SetBulk is called with on an array: the first bit of
\* each of its first two words, the word 0x80000001
BulkArgs(b) ==
    {<<i, {0, 31}>> : i \in {j \in {0, 32} : j \div WordBits < Len0(b.bits)}}

InitPair ==
    /\ arr \in PairArrays
    /\ brr \in PairArrays
    /\ m = ParseToBitMatrix(ImageOf(1, 1, {}))
    /\ a = m
    /\ prev = m
    /\ last = Call("NewBitArray", <<arr>>, "nil", 0, NoGrid)
    /\ steps = 0
    /\ txt = NoText
    /\ heap = <<>>
    /\ refs = <<>>

CallClearA ==
    /\ arr' = ClearA(arr)
    /\ ArrayStep("Clear", <<arr>>, "nil", 0)

CallSetBulk ==
    \E r \in BulkArgs(arr) :
        /\ arr' = SetBulk(arr, r[1], r[2])
        /\ ArrayStep("SetBulk", <<arr, r[1], r[2]>>, "nil", 0)

\* arr.AppendBitArray(brr)
CallAppendBitArray ==
    /\ arr' = AppendBitArray(arr, brr)
    /\ ArrayStep("AppendBitArray", <<arr, brr>>, "nil", 0)

\* arr.Xor(brr)
CallXorA ==
    /\ arr' = XorA(arr, brr)
    /\ ArrayStep("Xor", <<arr, brr>>, XorAErr(arr, brr), 0)

\* brr = arr.Clone()
CallCloneA ==
    /\ brr' = CloneA(arr)
    /\ Log("Clone", <<arr>>, "nil", 0, NoGrid)
    /\ UNCHANGED <<m, a, arr, txt, heap, refs>>

\* arr.Equals(brr) or brr.Equals(arr); last.res is what the call returns
\* when last.err is "nil"
CallEqualsA ==
    \E p \in {<<arr, brr>>, <<brr, arr>>} :
        /\ ArrayStep("Equals", p, EqualsAErr(p[1], p[2]), EqualsA(p[1], p[2]))
        /\ UNCHANGED arr

NextPair ==
    \/ CallAppendBit
    \/ CallAppendBits
    \/ CallAppendBitArray
    \/ CallReverse
    \/ CallClearA
    \/ CallSetRange
    \/ CallSetBulk
    \/ CallFlipA
    \/ CallEnsureCapacity
    \/ CallXorA
    \/ CallCloneA
    \/ CallEqualsA

PairSpec == InitPair /\ [][NextPair]_vars

-----------------------------------------------------------------------------
(* CloneSpec: an object and its clone in the storage.  heap is the sequence *)
(* of the word slices made so far, a slice's address its index; an object   *)
(* holds addresses: a grid one per row, an array one.  refs.o is the object *)
(* built first and refs.c its clone, NoObj before Clone is called           *)

NoObj == [kind |-> "none"]

\* the slices an object points to
Addrs(o) ==
    IF o.kind = "grid" THEN {o.bits[y] : y \in DOMAIN o.bits}
    ELSE IF o.kind = "array" THEN {o.bits}
         ELSE {}

\* the grid that a grid object is: bm.bits[y] read through the storage
GridAt(h, o) ==
    [width |-> o.width, height |-> o.height, rowSize |-> o.rowSize,
     bits |-> [y \in DOMAIN o.bits |-> h[o.bits[y]]]]

\* the array that an array object is: ba.bits read through the storage
ArrayAt(h, o) == [bits |-> h[o.bits], size |-> o.size]

ValueAt(h, o) ==
    IF o.kind = "grid" THEN GridAt(h, o)
    ELSE IF o.kind = "array" THEN ArrayAt(h, o)
         ELSE NoObj

\* a grid object for the grid bm, its rows made at the end of the storage h
MakeGrid(h, bm) ==
    [heap |-> h \o [i \in 1 .. Len0(bm.bits) |-> bm.bits[i - 1]],
     obj |-> [kind |-> "grid", width |-> bm.width, height |-> bm.height,
              rowSize |-> bm.rowSize,
              bits |-> [y \in 0 .. (Len0(bm.bits) - 1) |-> Len(h) + 1 + y]]]

\* an array object for the array b, its words made at the end of the storage
MakeArray(h, b) ==
    [heap |-> Append(h, b.bits),
     obj |-> [kind |-> "array", bits |-> Len(h) + 1, size |-> b.size]]

\* a Clone that copies the row headers of the grid and not the rows
CloneGridShared(h, o) == [heap |-> h, obj |-> o]

\* (*BitMatrix).Clone in the storage: a new slice for every row
CloneGrid(h, o) == MakeGrid(h, Clone(GridAt(h, o)))

\* (*BitArray).Clone in the storage: a new slice of words
CloneArray(h, o) == MakeArray(h, CloneA(ArrayAt(h, o)))

\* the storage after the rows of the grid object o have been written in
\* place with the rows of bm (bm.bits[y][x] = ...)
WriteRows(h, o, bm) ==
    [ad \in DOMAIN h |->
        IF ad \in Addrs(o)
        THEN bm.bits[CHOOSE y \in DOMAIN o.bits : o.bits[y] = ad]
        ELSE h[ad]]

\* the storage and the array object after the array has become b: written
\* in place (ba.bits[i] = ...), or, when EnsureCapacity has made a longer
\* slice, in that slice (ba.bits = newBits)
WriteWords(h, o, b) ==
    IF Len0(b.bits) = Len0(h[o.bits])
    THEN [heap |-> [h EXCEPT ![o.bits] = b.bits],
          obj |-> [o EXCEPT !.size = b.size]]
    ELSE MakeArray(h, b)

\* the grids and arrays of CloneSpec
CloneDims == {<<5, 2>>, <<33, 2>>}

CloneImages(w, h) ==
    {ImageOf(w, h, {}), ImageOf(w, h, {<<0, 0>>, <<w - 1, h - 1>>})}

CloneArrays ==
    {NewEmptyBitArray, ArrayOf(5, {0}), ArrayOf(32, {31}), ArrayOf(33, {0, 32})}

\* the cells and indices the single-bit operations are called on
CloneCells(bm) == {<<bm.width - 1, 0>>, <<0, bm.height - 1>>}

CloneProbes(b) == {0, b.size - 1} \cap (0 .. (b.size - 1))

\* the two objects, and the other of the two
Targets == {"o", "c"}

Other(t) == IF t = "o" THEN "c" ELSE "o"

\* the values of the two objects
Snapshot == [o |-> ValueAt(heap, refs.o), c |-> ValueAt(heap, refs.c)]

InitClone ==
    /\ \E r \in {MakeGrid(<<>>, ParseToBitMatrix(image)) :
                    image \in UNION {CloneImages(d[1], d[2]) : d \in CloneDims}}
                \cup {MakeArray(<<>>, b) : b \in CloneArrays} :
          /\ heap = r.heap
          /\ refs = [o |-> r.obj, c |-> NoObj]
    /\ m = ParseToBitMatrix(ImageOf(1, 1, {}))
    /\ a = m
    /\ prev = Snapshot
    /\ last = Call("New", <<"o">>, "nil", Nil, NoGrid)
    /\ steps = 0
    /\ arr = NewEmptyBitArray
    /\ brr = NewEmptyBitArray
    /\ txt = NoText

\* what every call of CloneSpec does besides its own effect: prev is the
\* values of the two objects before the call, last.args[1] the object called
CloneLog(op, args, err) ==
    /\ steps < MaxCalls
    /\ steps' = steps + 1
    /\ prev' = Snapshot
    /\ last' = Call(op, args, err, Nil, NoGrid)
    /\ UNCHANGED <<m, a, arr, brr, txt>>

\* refs.c = refs.o.Clone()
CallClone ==
    /\ refs.o.kind # "none"
    /\ LET r == IF refs.o.kind = "grid" THEN CloneGrid(heap, refs.o)
                ELSE CloneArray(heap, refs.o)
       IN  /\ heap' = r.heap
           /\ refs' = [refs EXCEPT !.c = r.obj]
    /\ CloneLog("Clone", <<"o">>, "nil")

\* a call on the grid refs[t] after which the grid is bm: the rows are
\* written in place
OnGrid(t, bm, op, args, err) ==
    /\ heap' = WriteRows(heap, refs[t], bm)
    /\ UNCHANGED refs
    /\ CloneLog(op, <<t>> \o args, err)

\* a call on the array refs[t] after which the array is b
OnArray(t, b, op, args, err) ==
    /\ heap' = WriteWords(heap, refs[t], b).heap
    /\ refs' = [refs EXCEPT ![t] = WriteWords(heap, refs[t], b).obj]
    /\ CloneLog(op, <<t>> \o args, err)

CloneSet ==
    \E t \in Targets :
        /\ refs[t].kind = "grid"
        /\ LET bm == GridAt(heap, refs[t])
           IN  \E c \in CloneCells(bm) :
                   OnGrid(t, Set(bm, c[1], c[2]), "Set", c, "nil")

CloneUnset ==
    \E t \in Targets :
        /\ refs[t].kind = "grid"
        /\ LET bm == GridAt(heap, refs[t])
           IN  \E c \in CloneCells(bm) :
                   OnGrid(t, Unset(bm, c[1], c[2]), "Unset", c, "nil")

CloneFlip ==
    \E t \in Targets :
        /\ refs[t].kind = "grid"
        /\ LET bm == GridAt(heap, refs[t])
           IN  \E c \in CloneCells(bm) :
                   OnGrid(t, Flip(bm, c[1], c[2]), "Flip", c, "nil")

\* SetRegion(1, 0, 2, 1)
CloneSetRegion ==
    \E t \in Targets :
        /\ refs[t].kind = "grid"
        /\ LET bm == GridAt(heap, refs[t])
               r == <<U32(1), U32(0), U32(2), U32(1)>>
           IN  OnGrid(t, SetRegion(bm, r[1], r[2], r[3], r[4]), "SetRegion", r,
                      SetRegionErr(bm, r[1], r[2], r[3], r[4]))

\* one of the two grids xored with the other
CloneXor ==
    \E t \in Targets :
        /\ refs[t].kind = "grid"
        /\ refs[Other(t)].kind = "grid"
        /\ LET bm == GridAt(heap, refs[t])
               mask == GridAt(heap, refs[Other(t)])
           IN  OnGrid(t, Xor(bm, mask), "Xor", <<>>, XorErr(bm, mask))

CloneClear ==
    \E t \in Targets :
        /\ refs[t].kind = "grid"
        /\ OnGrid(t, Clear(GridAt(heap, refs[t])), "Clear", <<>>, "nil")

CloneRotate180 ==
    \E t \in Targets :
        /\ refs[t].kind = "grid"
        /\ LET r == Rotate180(GridAt(heap, refs[t]))
           IN  OnGrid(t, r.bm, "Rotate180", <<>>, r.err)

CloneSetA ==
    \E t \in Targets :
        /\ refs[t].kind = "array"
        /\ LET b == ArrayAt(heap, refs[t])
           IN  \E i \in CloneProbes(b) : OnArray(t, SetA(b, i), "Set", <<i>>, "nil")

CloneFlipA ==
    \E t \in Targets :
        /\ refs[t].kind = "array"
        /\ LET b == ArrayAt(heap, refs[t])
           IN  \E i \in CloneProbes(b) : OnArray(t, FlipA(b, i), "Flip", <<i>>, "nil")

\* EnsureCapacity(33)
CloneEnsureCapacity ==
    \E t \in Targets :
        /\ refs[t].kind = "array"
        /\ OnArray(t, EnsureCapacity(ArrayAt(heap, refs[t]), 33),
                   "EnsureCapacity", <<33>>, "nil")

CloneClearA ==
    \E t \in Targets :
        /\ refs[t].kind = "array"
        /\ OnArray(t, ClearA(ArrayAt(heap, refs[t])), "Clear", <<>>, "nil")

\* one of the two arrays xored with the other
CloneXorA ==
    \E t \in Targets :
        /\ refs[t].kind = "array"
        /\ refs[Other(t)].kind = "array"
        /\ LET b == ArrayAt(heap, refs[t])
               other == ArrayAt(heap, refs[Other(t)])
           IN  OnArray(t, XorA(b, other), "Xor", <<>>, XorAErr(b, other))

CloneAppendBit ==
    \E t \in Targets, bit \in BOOLEAN :
        /\ refs[t].kind = "array"
        /\ OnArray(t, AppendBit(ArrayAt(heap, refs[t]), bit), "AppendBit",
                   <<bit>>, "nil")

\* AppendBits(5, 3) and AppendBits(0x80000001, 32)
CloneAppendBits ==
    \E t \in Targets, r \in {<<{0, 2}, 3>>, <<{0, 31}, 32>>} :
        /\ refs[t].kind = "array"
        /\ OnArray(t, AppendBits(ArrayAt(heap, refs[t]), r[1], r[2]),
                   "AppendBits", r, AppendBitsErr(r[2]))

\* one of the two arrays appended to the other
CloneAppendBitArray ==
    \E t \in Targets :
        /\ refs[t].kind = "array"
        /\ refs[Other(t)].kind = "array"
        /\ OnArray(t, AppendBitArray(ArrayAt(heap, refs[t]),
                                     ArrayAt(heap, refs[Other(t)])),
                   "AppendBitArray", <<>>, "nil")

NextClone ==
    \/ CallClone
    \/ CloneSet
    \/ CloneUnset
    \/ CloneFlip
    \/ CloneSetRegion
    \/ CloneXor
    \/ CloneClear
    \/ CloneRotate180
    \/ CloneSetA
    \/ CloneFlipA
    \/ CloneEnsureCapacity
    \/ CloneClearA
    \/ CloneXorA
    \/ CloneAppendBit
    \/ CloneAppendBits
    \/ CloneAppendBitArray

CloneSpec == InitClone /\ [][NextClone]_vars

-----------------------------------------------------------------------------
(* What the properties speak of *)

\* the in-range coordinates of a grid, and those whose bit Get reports set
AllCells(bm) == (0 .. (bm.width - 1)) \X (0 .. (bm.height - 1))

SetCells(bm) == {c \in AllCells(bm) : Get(bm, c[1], c[2])}

\* Get agrees on two grids everywhere but at the cells of `but`
SameBitsBut(bm, other, but) ==
    \A c \in AllCells(bm) \ but : Get(bm, c[1], c[2]) = Get(other, c[1], c[2])

\* a grid in which Get reports no bit set; a grid whose every word is zero
NoBitSet(bm) == SetCells(bm) = {}

AllClear(bm) == Equals(bm, NewBitMatrix(bm.width, bm.height))

\* from <= i < from + count with the sum taken in the integers, not on uint32
InSpan(i, from, count) ==
    /\ ~LtU32(U32(i), from)
    /\ CarryU32(from, count) \/ LtU32(U32(i), AddU32(from, count))

\* from + count > n with the sum taken in the integers
SpanExceeds(from, count, n) ==
    CarryU32(from, count) \/ GtU32(AddU32(from, count), U32(n))

\* the least and the greatest of a nonempty set of numbers
Min(S) == CHOOSE i \in S : \A j \in S : i <= j

Max(S) == CHOOSE i \in S : \A j \in S : i >= j

-----------------------------------------------------------------------------
(* C1 *)

\* C1: after Set(x, y) on an in-range coordinate Get(x, y) is true, after
\* Unset(x, y) it is false whatever the bit was before, and neither call
\* changes what Get returns at any other in-range coordinate.
SetThenUnsetThenGet ==
    /\ last.op = "Set" =>
          /\ Get(m, last.args[1], last.args[2])
          /\ SameBitsBut(m, prev, {last.args})
    /\ last.op = "Unset" =>
          /\ ~Get(m, last.args[1], last.args[2])
          /\ SameBitsBut(m, prev, {last.args})

\* Unset has cleared a bit of the second word of a row that was set
UnsetClearedSetBit ==
    /\ last.op = "Unset"
    /\ last.args[1] >= WordBits
    /\ Get(prev, last.args[1], last.args[2])
    /\ ~Get(m, last.args[1], last.args[2])

-----------------------------------------------------------------------------
(* C2, C3 *)

\* C2: when SetRegion(left, top, w, h) returns no error, afterwards Get(x, y)
\* is true for every in-range (x, y) with left <= x < left + w and
\* top <= y < top + h, and every other in-range bit has its previous value.
SetRegionSetsExactlyTheRectangle ==
    (last.op = "SetRegion" /\ last.err = "nil") =>
        \A c \in AllCells(m) :
            Get(m, c[1], c[2]) =
                \/ /\ InSpan(c[1], last.args[1], last.args[3])
                   /\ InSpan(c[2], last.args[2], last.args[4])
                \/ Get(prev, c[1], c[2])

\* C3: SetRegion returns an error exactly when width or height is 0 or the
\* rectangle, with left + width and top + height taken in the integers, does
\* not lie inside the grid.
SetRegionErrorIffNotInside ==
    last.op = "SetRegion" =>
        ((last.err # "nil") <=>
            \/ last.args[3] = U32(0)
            \/ last.args[4] = U32(0)
            \/ SpanExceeds(last.args[1], last.args[3], prev.width)
            \/ SpanExceeds(last.args[2], last.args[4], prev.height))

-----------------------------------------------------------------------------
(* C4, C5, C6 *)

\* C4: GetEnclosingRectangle returns nil exactly when no bit is set, and
\* otherwise {left, top, width, height} of the least rectangle that holds
\* every set bit.
EnclosingRectangleIsBoundingBox ==
    last.op = "GetEnclosingRectangle" =>
        LET xs == {c[1] : c \in SetCells(m)}
            ys == {c[2] : c \in SetCells(m)}
        IN  IF NoBitSet(m) THEN last.res = Nil
            ELSE last.res = Some(<<Min(xs), Min(ys), Max(xs) - Min(xs) + 1,
                                   Max(ys) - Min(ys) + 1>>)

\* C5: GetTopLeftOnBit returns nil exactly when no bit is set, and otherwise
\* {x, y} of the first set bit in row-major order.
TopLeftIsFirstSetBit ==
    last.op = "GetTopLeftOnBit" =>
        LET y == Min({c[2] : c \in SetCells(m)})
            x == Min({c[1] : c \in {d \in SetCells(m) : d[2] = y}})
        IN  IF NoBitSet(m) THEN last.res = Nil ELSE last.res = Some(<<x, y>>)

\* C6: GetBottomRightOnBit returns nil exactly when no bit is set, and
\* otherwise {x, y} of the last set bit in row-major order; {0, 0} when the
\* only set bit is (0, 0).
BottomRightIsLastSetBit ==
    last.op = "GetBottomRightOnBit" =>
        LET y == Max({c[2] : c \in SetCells(m)})
            x == Max({c[1] : c \in {d \in SetCells(m) : d[2] = y}})
        IN  IF NoBitSet(m) THEN last.res = Nil ELSE last.res = Some(<<x, y>>)

-----------------------------------------------------------------------------
(* C7, C8 *)

\* C7: after Rotate180 on a grid of width W and height H, Get(x, y) is what
\* Get(W-1-x, H-1-y) was before the call, at every in-range (x, y).
Rotate180MovesEveryBit ==
    last.op = "Rotate180" =>
        /\ last.err = "nil"
        /\ \A c \in AllCells(m) :
              Get(m, c[1], c[2]) =
                 Get(prev, m.width - 1 - c[1], m.height - 1 - c[2])

\* C8: Rotate180 applied twice yields a grid that Equals the original.
Rotate180Involution ==
    (last.op = "Rotate180" /\ last.twice # NoGrid) => Equals(m, last.twice)

-----------------------------------------------------------------------------
(* C9, C10 *)

\* C9: for grids m and a of identical dimensions m.Xor(a) returns no error,
\* flips in m exactly the bits set in a and leaves a as it was; the Xor of
\* a grid with an equal grid, or with itself, is all clear; Xor(a) applied
\* twice restores m.
XorFlipsTheMaskBits ==
    /\ (last.op = "Xor" /\ prev.width = a.width /\ prev.height = a.height) =>
          /\ last.err = "nil"
          /\ \A c \in AllCells(m) :
                Get(m, c[1], c[2]) = (Get(prev, c[1], c[2]) # Get(a, c[1], c[2]))
          /\ a = last.args[1]
          /\ Equals(prev, a) => AllClear(m)
          /\ last.twice # NoGrid => Equals(m, last.twice)
    /\ last.op = "XorSelf" => (last.err = "nil" /\ AllClear(m))

\* the second of two Xor(a) in a row, on a grid of several words a row that
\* was equal to a nonzero a before this call
XorTwiceOfEqualGrids ==
    /\ last.op = "Xor"
    /\ last.err = "nil"
    /\ last.twice # NoGrid
    /\ m.rowSize > 1
    /\ ~NoBitSet(a)
    /\ Equals(prev, a)

\* C10: Xor(mask) returns an error whenever the mask's width, height or
\* rowSize differs from the grid's, and then changes no bit of either.
XorMismatchIsAnError ==
    (/\ last.op = "Xor"
     /\ \/ prev.width # a.width
        \/ prev.height # a.height
        \/ prev.rowSize # a.rowSize) =>
        /\ last.err # "nil"
        /\ m = prev
        /\ a = last.args[1]

\* Xor has refused a mask one row higher than the grid, both with bits set
XorRefusedHigherMask ==
    /\ last.op = "Xor"
    /\ last.err # "nil"
    /\ prev.height # a.height
    /\ ~NoBitSet(prev)
    /\ ~NoBitSet(a)

-----------------------------------------------------------------------------
(* C11, C12, C13: the text form *)

\* a row terminator
IsTerminator(c) == c \in {"\n", "\r"}

\* the positions of a text at which a non-empty row begins
RowStarts(text) ==
    {i \in 1 .. Len(text) :
        ~IsTerminator(text[i]) /\ (i = 1 \/ IsTerminator(text[i - 1]))}

\* the last position of the row that begins at position i
RowEnd(text, i) ==
    Max({j \in i .. Len(text) : \A k \in i .. j : ~IsTerminator(text[k])})

\* the non-empty rows of a text, in order: its maximal runs of characters
\* that are not terminators
Rows(text) ==
    [y \in 1 .. Cardinality(RowStarts(text)) |->
        LET i == CHOOSE s \in RowStarts(text) :
                     Cardinality({r \in RowStarts(text) : r < s}) = y - 1
        IN  SubSeq(text, i, RowEnd(text, i))]

\* whether token tok stands in row at the positions after pos
StartsWith(row, pos, tok) ==
    /\ pos + Len(tok) <= Len(row)
    /\ SubSeq(row, pos + 1, pos + Len(tok)) = tok

\* the tokens of a row after position pos, read from the left, the set token
\* tried first: ok is whether the row is made of tokens, bits[x] whether its
\* x-th token is the set token
RECURSIVE RowTokens(_, _, _, _)
RowTokens(row, setString, unsetString, pos) ==
    IF pos >= Len(row) THEN [ok |-> TRUE, bits |-> <<>>]
    ELSE IF StartsWith(row, pos, setString)
         THEN LET rest == RowTokens(row, setString, unsetString,
                                    pos + Len(setString))
              IN  [ok |-> rest.ok, bits |-> <<TRUE>> \o rest.bits]
         ELSE IF StartsWith(row, pos, unsetString)
              THEN LET rest == RowTokens(row, setString, unsetString,
                                         pos + Len(unsetString))
                   IN  [ok |-> rest.ok, bits |-> <<FALSE>> \o rest.bits]
              ELSE [ok |-> FALSE, bits |-> <<>>]

\* a text that is not a grid: it has no token at all, a row of it is not made
\* of tokens, or two of its rows differ in their number of tokens
BadText(t) ==
    LET rows == Rows(t.text)
        toks == [y \in DOMAIN rows |-> RowTokens(rows[y], t.set, t.unset, 0)]
    IN  \/ rows = <<>>
        \/ \E y \in DOMAIN rows : ~toks[y].ok
        \/ \E y, z \in DOMAIN rows : Len(toks[y].bits) # Len(toks[z].bits)

\* C11: for any grid and any pair of distinct set/unset token strings,
\* ParseStringToBitMatrix(grid.ToString(set, unset), set, unset) succeeds and
\* returns a grid that Equals the original.
TextRoundTrip ==
    (last.op = "ParseStringToBitMatrix" /\ last.args[1].of # NoGrid) =>
        /\ last.err = "nil"
        /\ Equals(last.res, last.args[1].of)

\* C12: when ParseStringToBitMatrix succeeds, the text is rows of set/unset
\* tokens separated by one or more terminators (runs of terminators and a
\* missing final terminator accepted, empty rows skipped); the grid has as
\* many rows as the text has non-empty rows, as many columns as each row has
\* tokens, and bit (x, y) is set exactly when the x-th token of the y-th
\* non-empty row is the set token.
ParsedGridIsTheRowsOfTokens ==
    (last.op = "ParseStringToBitMatrix" /\ last.err = "nil") =>
        LET t == last.args[1]
            rows == Rows(t.text)
            g == last.res
        IN  /\ g.height = Len(rows)
            /\ g.height >= 1
            /\ g.width >= 1
            /\ \A y \in 1 .. Len(rows) :
                  LET toks == RowTokens(rows[y], t.set, t.unset, 0)
                  IN  /\ toks.ok
                      /\ Len(toks.bits) = g.width
                      /\ \A x \in 1 .. g.width :
                            Get(g, x - 1, y - 1) = toks.bits[x]

\* a text that was not written by ToString has been parsed into a grid of
\* two rows, one with a bit set: the text holds two terminators in a row
\* and ends without one
ParsedTwoRowsAcrossEmptyRow ==
    /\ last.op = "ParseStringToBitMatrix"
    /\ last.err = "nil"
    /\ last.args[1].of = NoGrid
    /\ last.res.height = 2
    /\ ~NoBitSet(last.res)
    /\ LET text == last.args[1].text
       IN  /\ ~IsTerminator(text[Len(text)])
           /\ \E i \in 1 .. (Len(text) - 1) :
                 IsTerminator(text[i]) /\ IsTerminator(text[i + 1])

\* C13: ParseStringToBitMatrix returns an error and no grid for every text
\* in which two non-empty rows have different token counts, or in which some
\* position holds neither the set token, the unset token nor a terminator
\* (also when fewer characters remain than the token is long), or which
\* holds no token at all.
ParseRefusesBadText ==
    (last.op = "ParseStringToBitMatrix" /\ BadText(last.args[1])) =>
        /\ last.err \notin {"nil", "panic"}
        /\ last.res = NoGrid

-----------------------------------------------------------------------------
(* C14, C15: rows *)

\* the indices of the backing words of an array
BackingBits(b) == 0 .. ((Len0(b.bits) * WordBits) - 1)

\* C14: GetRow(y, row) returns a new array of size exactly width if row is
\* nil or row.size < width, and otherwise the buffer supplied with its size
\* unchanged; in both cases bit x of the result is Get(x, y) for every
\* x < width, every bit of the result at an index >= width is clear whatever
\* the buffer held, and the grid is unchanged.
GetRowCopiesTheRow ==
    last.op = "GetRow" =>
        LET y == last.args[1]
            row == last.args[2]
        IN  /\ (row = NilRow \/ row.size < m.width) =>
                  (arr.size = m.width /\ Len0(arr.bits) = m.rowSize)
            /\ ~(row = NilRow \/ row.size < m.width) =>
                  (arr.size = row.size /\ Len0(arr.bits) = Len0(row.bits))
            /\ \A x \in 0 .. (m.width - 1) : GetA(arr, x) = Get(m, x, y)
            /\ \A i \in BackingBits(arr) : i >= m.width => ~GetA(arr, i)
            /\ m = prev

\* C15: SetRow(y, row) copies the first min(rowSize, number of words of row)
\* words of row into row y of the grid, for arrays with fewer, as many, or
\* more words than rowSize; the other words of row y and all other rows are
\* unchanged.
SetRowCopiesTheCommonWords ==
    (last.op = "SetRow" /\ last.args[2] # NilRow) =>
        LET y == last.args[1]
            row == last.args[2]
            n == Min({prev.rowSize, Len0(row.bits)})
        IN  /\ \A w \in 0 .. (m.rowSize - 1) :
                  m.bits[y][w] = IF w < n THEN row.bits[w] ELSE prev.bits[y][w]
            /\ \A z \in 0 .. (m.height - 1) : z # y => m.bits[z] = prev.bits[z]

-----------------------------------------------------------------------------
(* C16, C17: the searches *)

\* the indices from `from` on, below the size, at which Get is `value`
Hits(b, from, value) == {i \in from .. (b.size - 1) : GetA(b, i) = value}

\* what a bit-by-bit scan from `from` for a bit that is `value` returns
LinearScan(b, from, value) ==
    IF Hits(b, from, value) = {} THEN b.size ELSE Min(Hits(b, from, value))

\* C16: GetNextSet(from) returns the smallest index i with from <= i < size
\* and Get(i) true, or size if there is none (also when from >= size).
GetNextSetIsLinearScan ==
    last.op = "GetNextSet" =>
        last.res = LinearScan(last.args[1], last.args[2], TRUE)

\* GetNextSet has started in the middle of one word and found its bit in a
\* later word of an array that has further bits set below `from`
GetNextSetFoundInLaterWord ==
    /\ last.op = "GetNextSet"
    /\ last.res < last.args[1].size
    /\ last.args[2] % WordBits # 0
    /\ last.res \div WordBits > last.args[2] \div WordBits
    /\ Hits(last.args[1], 0, TRUE) # Hits(last.args[1], last.args[2], TRUE)

\* C17: GetNextUnset(from) returns the smallest index i with from <= i < size
\* and Get(i) false, or size if there is none, for from in any word of the
\* array.
GetNextUnsetIsLinearScan ==
    last.op = "GetNextUnset" =>
        last.res = LinearScan(last.args[1], last.args[2], FALSE)

-----------------------------------------------------------------------------
(* C18, C19, C20: the array under SetRange, AppendBits and Reverse *)

\* C18: SetRange(start, end) returns an error and changes nothing when
\* end < start or end > size; it changes nothing when end = start; and
\* otherwise afterwards every bit i with start <= i < end is set and every
\* other bit below size is as before, also for ranges that end on bit 31 of
\* a word or span several words.
SetRangeSetsTheHalfOpenRange ==
    last.op = "SetRange" =>
        LET b == last.args[1]
            start == last.args[2]
            end == last.args[3]
        IN  IF (end < start) \/ (end > b.size)
            THEN last.err # "nil" /\ arr = b
            ELSE /\ last.err = "nil"
                 /\ arr.size = b.size
                 /\ end = start => arr = b
                 /\ \A i \in 0 .. (b.size - 1) :
                       GetA(arr, i) = (GetA(b, i) \/ (start <= i /\ i < end))

\* SetRange has set a range that starts on bit 31 of the first word and ends
\* on bit 31 of a later word, in an array that had a bit clear in the range
\* and a bit set and a bit clear outside it
SetRangeAcrossWords ==
    /\ last.op = "SetRange"
    /\ last.err = "nil"
    /\ last.args[2] = 31
    /\ last.args[3] >= 64
    /\ last.args[3] % WordBits = 0
    /\ Hits(last.args[1], 31, FALSE) # {}
    /\ \E i, j \in 0 .. 30 : GetA(arr, i) /\ ~GetA(arr, j)

\* C19: in every state of an array reachable through its operations, after
\* AppendBits(value, n) with n in 0..32 the size has grown by exactly n, the
\* bits below the old size are unchanged, and for k in 0..n-1 the bit at
\* index oldSize + k is bit n-1-k of value; for n > 32 an error is returned
\* and the array is unchanged.
AppendBitsAppendsMsbFirst ==
    last.op = "AppendBits" =>
        LET b == last.args[1]
            value == last.args[2]
            n == last.args[3]
        IN  IF n > 32
            THEN last.err # "nil" /\ arr = b
            ELSE /\ last.err = "nil"
                 /\ arr.size = b.size + n
                 /\ \A i \in 0 .. (b.size - 1) : GetA(arr, i) = GetA(b, i)
                 /\ \A k \in 0 .. (n - 1) :
                       GetA(arr, b.size + k) = ((n - 1 - k) \in value)

\* C20: for every size from 1 bit to several words and every content,
\* Reverse produces the words of a bit-by-bit reversal: new bit i is old bit
\* size-1-i for i < size, and every bit of the backing words at an index
\* >= size is zero.
ReverseIsBitByBitReversal ==
    (last.op = "Reverse" /\ last.args[1].size >= 1) =>
        LET b == last.args[1]
        IN  /\ arr.size = b.size
            /\ \A i \in 0 .. (b.size - 1) : GetA(arr, i) = GetA(b, b.size - 1 - i)
            /\ \A i \in BackingBits(arr) : i >= arr.size => ~GetA(arr, i)


-----------------------------------------------------------------------------
(* C24, C25: the grid's queries return, and its padding stays zero *)

\* the queries that scan the words of the grid
Queries == {"GetTopLeftOnBit", "GetBottomRightOnBit", "GetEnclosingRectangle"}

\* C24: every call of GetTopLeftOnBit, GetBottomRightOnBit and
\* GetEnclosingRectangle terminates and returns nil or coordinates, on every
\* grid: all clear, of height 1, of rows of two or more words with the first
\* word of a row all zero.
QueriesReturn ==
    last.op \in Queries => last.res.kind \in {"nil", "some"}

\* the bits of the row words of a grid at a column index >= width
PaddingBits(bm) ==
    {c \in (0 .. ((bm.rowSize * WordBits) - 1)) \X (0 .. (bm.height - 1)) :
        c[1] >= bm.width /\ (c[1] % WordBits) \in bm.bits[c[2]][c[1] \div WordBits]}

\* C25: in every state reached from a parsed grid by Set, Unset, Flip,
\* SetRegion, Xor, Clear and Rotate180, every bit of every row word at a
\* column index >= width is zero.
GridPaddingIsZero ==
    PaddingBits(m) = {}


-----------------------------------------------------------------------------
(* C21, C22: equality of arrays, and the number of their words *)

\* the number of words that hold size bits
WordsFor(size) == (size + 31) \div WordBits

\* the bits below size agree on two arrays of that size
SameBits(b, other) ==
    \A i \in 0 .. (b.size - 1) : GetA(b, i) = GetA(other, i)

\* C21: for any two arrays, however each was built, Equals completes and
\* returns true if and only if the sizes are equal and Get(i) agrees on the
\* two for every i below size; bits stored beyond size never influence the
\* result.
EqualsIsEqualityOfTheBits ==
    last.op = "Equals" =>
        LET b == last.args[1]
            other == last.args[2]
        IN  /\ last.err = "nil"
            /\ last.res = (b.size = other.size /\ SameBits(b, other))

\* C22: in every state of an array reached by AppendBit, AppendBits,
\* AppendBitArray, Reverse, Clear, SetRange and Xor from NewBitArray or
\* NewEmptyBitArray, the number of backing words is ceil(size / 32).
WordsAreCeilOfSize ==
    /\ Len0(arr.bits) = WordsFor(arr.size)
    /\ Len0(brr.bits) = WordsFor(brr.size)


-----------------------------------------------------------------------------
(* C23: Clone *)

\* the two values have the same dimensions or size, and the same bits
SameObject(v, w) ==
    IF v.kind = "grid"
    THEN /\ w.kind = "grid"
         /\ Equals(GridAt(heap, v), GridAt(heap, w))
         /\ AllCells(GridAt(heap, v)) = AllCells(GridAt(heap, w))
         /\ SetCells(GridAt(heap, v)) = SetCells(GridAt(heap, w))
    ELSE /\ w.kind = "array"
         /\ EqualsAErr(ArrayAt(heap, v), ArrayAt(heap, w)) = "nil"
         /\ EqualsA(ArrayAt(heap, v), ArrayAt(heap, w))
         /\ SameBits(ArrayAt(heap, v), ArrayAt(heap, w))

\* C23: Clone of a grid or an array returns an instance that is equal to the
\* original at the time of the call and shares no storage with it: any later
\* mutation (Set, Unset, Flip, SetRegion, Xor, Clear, Rotate180, Append*) of
\* one of the two never changes any bit, size or dimension of the other.
CloneIsIndependent ==
    /\ last.op = "Clone" =>
          /\ SameObject(refs.o, refs.c)
          /\ ValueAt(heap, refs.o) = prev.o
    /\ Addrs(refs.o) \cap Addrs(refs.c) = {}
    /\ last.op \notin {"New", "Clone"} =>
          ValueAt(heap, refs[Other(last.args[1])]) = prev[Other(last.args[1])]

\* Clone and then two calls that each changed an object: the two objects,
\* equal after Clone, differed before the last call, the last call has
\* changed its object, and the two differ
ClonesDiverged ==
    /\ last.op \notin {"New", "Clone"}
    /\ refs.c.kind # "none"
    /\ last.err = "nil"
    /\ ValueAt(heap, refs[last.args[1]]) # prev[last.args[1]]
    /\ prev.o # prev.c
    /\ ValueAt(heap, refs.o) # ValueAt(heap, refs.c)
    /\ steps = MaxCalls

=============================================================================
